---- MODULE Spec2Model ----
(***************************************************************************)
(* Model of multitude_bot: a Telegram bot that stores chats and their RSS  *)
(* subscriptions in two tables (chat, feed), routes inbound messages by    *)
(* the registration state of the chat (src/src/main.rs, main and the       *)
(* endpoints), and sweeps all stored feeds periodically for new items      *)
(* (check_for_updates).  Every await of the source is one step of the      *)
(* model; the store, the web and the Telegram transport answer             *)
(* nondeterministically where the source handles both outcomes.            *)
(***************************************************************************)
EXTENDS Integers, Sequences, FiniteSets, TLC

\* ---------------------------------------------------------------- bounds
MaxTime == 2        \* the store's clock (current_timestamp) runs over 1..MaxTime
MaxDate == 3        \* publish dates carried by feed documents: 1..MaxDate
MaxItems == 2       \* items in one fetched channel
MaxFeedId == 2      \* feed ids the auto-increment sequence hands out

\* ------------------------------------------------------------- constants
Default == 0        \* DateTime::default(), the epoch: what unwrap_or_default() yields

ChatIds == {1, 2}                 \* msg.chat.id of the conversations that write to the bot
IsGroup(c) == c = 2               \* msg.chat.is_group() || msg.chat.is_supergroup()
Links == {"u1"}                   \* feed addresses
Texts == {"/help", "/start", "/subscribe", "/list", "/unsubscribe",
          "/deleteaccount", "hello"}
DbOutcomes == {"ok", "err"}       \* a store call answers or fails with a DbErr

\* The pubDate of an item: a string that parses to the date d is written d.
NoDate == -1                      \* item.pub_date() is None
BadDate == -2                     \* a pubDate string no RFC 2822 fallback parses
PubDates == {NoDate, BadDate} \cup (1..MaxDate)
None == "None"                    \* Option::None of a parsed command

VARIABLES
    chat,             \* table chat: id -> row
    feed,             \* table feed: id -> row
    nextFeedId,       \* the auto-increment sequence behind feed.id
    now,              \* current_timestamp of the store
    pc,               \* position of the check_for_updates task
    feeds,            \* check_for_updates: the rows of `feeds` not yet visited
    cur,              \* check_for_updates: the loop variable `feed`
    channel,          \* check_for_updates: the items of the channel just read
    items,            \* check_for_updates: channel.items not yet visited
    max_update_time,  \* check_for_updates: Option<DateTime>
    attempts,         \* send_message calls made for `cur` in this sweep, in order
    listed,           \* ids read by Feed::find().all at the start of the sweep
    processed,        \* ids whose loop body has run in this sweep
    skipped,          \* ids whose fetch failed in this sweep
    running,          \* start times of the check_for_updates calls that have not returned
    last              \* the message last handled: what the handler was given and replied

vars == <<chat, feed, nextFeedId, now, pc, feeds, cur, channel, items,
          max_update_time, attempts, listed, processed, skipped, running, last>>

store == <<chat, feed, nextFeedId>>
sweep == <<pc, feeds, cur, channel, items, max_update_time, attempts, listed,
           processed, skipped, running>>

\* ------------------------------------------------------------ helpers
\* A handled message.  A specification that follows the dispatcher records
\* what each handler was given and what it replied (seen = TRUE); one that
\* follows the sweep keeps no record of the replies.
MsgEvent(seen, c, text, link, feed_id, db, reply, n, ids) ==
    IF seen THEN [chat |-> c, text |-> text, link |-> link, feed_id |-> feed_id,
                  db |-> db, reply |-> reply, n |-> n, ids |-> ids]
    ELSE last

NoMessage == [chat |-> 0, text |-> "", link |-> "", feed_id |-> 0,
              db |-> "ok", reply |-> "", n |-> 0, ids |-> {}]

Perms(S) == {s \in [1..Cardinality(S) -> S] : \A i, j \in 1..Cardinality(S) : s[i] = s[j] => i = j}

Remove(f, S) == [x \in (DOMAIN f) \ S |-> f[x]]

EmptyTable == [x \in {} |-> 0]

\* ------------------------------------------------------------ the store
\* Entity rows.  created_at and updated_at both default to current_timestamp.
\* The title of a feed is stored beside its link and read only to format
\* replies and notifications; the rows here carry the link alone.
ChatRow(id) == [id |-> id, created_at |-> now]

\* FeedRow with updated_at left at the default date instead of current_timestamp.
FeedRowEpoch(id, chat_id, link) ==
    [id |-> id, chat_id |-> chat_id, link |-> link, created_at |-> now, updated_at |-> Default]

FeedRow(id, chat_id, link) ==
    [id |-> id, chat_id |-> chat_id, link |-> link, created_at |-> now, updated_at |-> now]

NoFeed == [id |-> 0, chat_id |-> 0, link |-> "", created_at |-> Default, updated_at |-> Default]

\* The foreign key feed.chat_id -> chat.id carries no ON DELETE action: the
\* store refuses to delete a chat row that a feed row still references, and
\* to insert a feed row whose chat row does not exist.
ReferencedByFeed(id) == \E f \in DOMAIN feed : feed[f].chat_id = id

\* chat::ActiveModel { id: Set(chat_id), .. }.insert(db)
create_chat(chat_id, db) ==
    IF db = "ok" /\ chat_id \notin DOMAIN chat
    THEN [ok |-> TRUE, chat |-> chat @@ (chat_id :> ChatRow(chat_id))]
    ELSE [ok |-> FALSE, chat |-> chat]

\* feed::ActiveModel { chat_id, title, link, .. }.insert(db)
create_feed(link, chat_id, db) ==
    IF db = "ok" /\ chat_id \in DOMAIN chat
    THEN [ok |-> TRUE, id |-> nextFeedId,
          feed |-> feed @@ (nextFeedId :> FeedRow(nextFeedId, chat_id, link))]
    ELSE [ok |-> FALSE, id |-> 0, feed |-> feed]

\* Feed::find().filter(ChatId.eq(chat_id)).all(db): the ids of the rows read.
read_feed(chat_id) == {f \in DOMAIN feed : feed[f].chat_id = chat_id}

\* delete_feed with the filter on chat_id left out.
delete_feed_by_id(id, chat_id, db) ==
    LET hit == {f \in DOMAIN feed : feed[f].id = id}
    IN  IF db = "ok"
        THEN [ok |-> TRUE, rows_affected |-> Cardinality(hit), feed |-> Remove(feed, hit)]
        ELSE [ok |-> FALSE, rows_affected |-> 0, feed |-> feed]

\* Feed::delete_many().filter(ChatId.eq(chat_id)).filter(Id.eq(id)).exec(db)
delete_feed(id, chat_id, db) ==
    LET hit == {f \in DOMAIN feed : feed[f].chat_id = chat_id /\ feed[f].id = id}
    IN  IF db = "ok"
        THEN [ok |-> TRUE, rows_affected |-> Cardinality(hit), feed |-> Remove(feed, hit)]
        ELSE [ok |-> FALSE, rows_affected |-> 0, feed |-> feed]

\* delete_chat on a store whose foreign key does not stop the delete.
delete_chat_unchecked(id, db) ==
    IF db = "ok"
    THEN [ok |-> TRUE, rows_affected |-> Cardinality({id} \cap DOMAIN chat),
          chat |-> Remove(chat, {id})]
    ELSE [ok |-> FALSE, rows_affected |-> 0, chat |-> chat]

\* Chat::delete_by_id(id).exec(db)
delete_chat(id, db) ==
    IF db = "ok" /\ ~ReferencedByFeed(id)
    THEN [ok |-> TRUE, rows_affected |-> Cardinality({id} \cap DOMAIN chat),
          chat |-> Remove(chat, {id})]
    ELSE [ok |-> FALSE, rows_affected |-> 0, chat |-> chat]

\* is_not_subscribed answering c.is_some().
is_subscribed(c) == c \in DOMAIN chat

\* Chat::find_by_id(msg.chat.id).one(db) is None
is_not_subscribed(c) == c \notin DOMAIN chat

\* ------------------------------------------------------------ the router
LoggedOutCommand(text) ==
    CASE text = "/help" -> "Help"
      [] text = "/start" -> "Start"
      [] OTHER -> None

LoggedInCommand(text) ==
    CASE text = "/help" -> "Help"
      [] text = "/subscribe" -> "Subscribe"
      [] text = "/list" -> "List"
      [] text = "/unsubscribe" -> "Unsubscribe"
      [] text = "/deleteaccount" -> "DeleteAccount"
      [] OTHER -> None

\* The dptree without filter_async(is_not_subscribed) before the logged-out commands.
RouteUnfiltered(c, text) ==
    IF LoggedOutCommand(text) # None THEN "process_logged_out_command"
    ELSE IF is_not_subscribed(c) THEN "ask_to_subscribe"
    ELSE IF LoggedInCommand(text) # None THEN "process_command"
    ELSE IF IsGroup(c) THEN "noop"
    ELSE "default_handler"

\* The dptree with noop as the endpoint of the last branch for every chat.
RouteWithoutGroupFilter(c, text) ==
    IF is_not_subscribed(c)
    THEN IF LoggedOutCommand(text) # None THEN "process_logged_out_command"
         ELSE "ask_to_subscribe"
    ELSE IF LoggedInCommand(text) # None THEN "process_command"
    ELSE "noop"

\* The dptree without its last branch, the group filter with noop.
RouteWithoutNoop(c, text) ==
    IF is_not_subscribed(c)
    THEN IF LoggedOutCommand(text) # None THEN "process_logged_out_command"
         ELSE "ask_to_subscribe"
    ELSE IF LoggedInCommand(text) # None THEN "process_command"
    ELSE "default_handler"

\* The dptree of main: the endpoint a message of chat c with this text reaches.
Route(c, text) ==
    IF is_not_subscribed(c)
    THEN IF LoggedOutCommand(text) # None THEN "process_logged_out_command"
         ELSE "ask_to_subscribe"
    ELSE IF LoggedInCommand(text) # None THEN "process_command"
    ELSE IF IsGroup(c) THEN "noop"
    ELSE "default_handler"

\* ------------------------------------------------------------ endpoints
\* The dispatcher hands the updates of one chat to its handlers one after the
\* other, so the lookup of is_not_subscribed and the endpoint it leads to are
\* one step: no other handler touches the rows of that chat in between.

\* is_not_subscribed: the lookup fails and .expect("Database Error") panics.
LookupPanics(c, text, seen) ==
    /\ last' = MsgEvent(seen, c, text, "", 0, "err", "panic", 0, {})
    /\ UNCHANGED <<store, now, sweep>>

ProcessLoggedOutHelp(c, seen) ==
    /\ Route(c, "/help") = "process_logged_out_command"
    /\ last' = MsgEvent(seen, c, "/help", "", 0, "ok", "LoggedOutCommand::descriptions", 0, {})
    /\ UNCHANGED <<store, now, sweep>>

ProcessStart(c, db, seen) ==
    /\ Route(c, "/start") = "process_logged_out_command"
    /\ chat' = create_chat(c, db).chat
    /\ last' = MsgEvent(seen, c, "/start", "", 0, db,
                      IF create_chat(c, db).ok
                      THEN "Registering your chat with the bot...Done."
                      ELSE "Error in registering new chat", 0, {})
    /\ UNCHANGED <<feed, nextFeedId, now, sweep>>

ask_to_subscribe(c, text, seen) ==
    /\ Route(c, text) = "ask_to_subscribe"
    /\ last' = MsgEvent(seen, c, text, "", 0, "ok", "type /start to create an account", 0, {})
    /\ UNCHANGED <<store, now, sweep>>

noop(c, text, seen) ==
    /\ Route(c, text) = "noop"
    /\ last' = MsgEvent(seen, c, text, "", 0, "ok", None, 0, {})
    /\ UNCHANGED <<store, now, sweep>>

\* Dispatcher's default_handler: log::warn!("Unhandled update"), no reply.
default_handler(c, text, seen) ==
    /\ Route(c, text) = "default_handler"
    /\ last' = MsgEvent(seen, c, text, "", 0, "ok", "Unhandled update", 0, {})
    /\ UNCHANGED <<store, now, sweep>>

ProcessHelp(c, seen) ==
    /\ Route(c, "/help") = "process_command"
    /\ last' = MsgEvent(seen, c, "/help", "", 0, "ok", "LoggedInCommand::descriptions", 0, {})
    /\ UNCHANGED <<store, now, sweep>>

\* Subscribe: validate_feed(&link), then create_feed.
ProcessSubscribe(c, link, valid, db, seen) ==
    /\ Route(c, "/subscribe") = "process_command"
    /\ nextFeedId <= MaxFeedId
    /\ IF valid
       THEN /\ feed' = create_feed(link, c, db).feed
            /\ nextFeedId' = IF create_feed(link, c, db).ok THEN nextFeedId + 1 ELSE nextFeedId
            /\ last' = MsgEvent(seen, c, "/subscribe", link, create_feed(link, c, db).id, db,
                              IF create_feed(link, c, db).ok THEN "Subscribed to feed" ELSE "Error",
                              0, {})
       ELSE /\ UNCHANGED <<feed, nextFeedId>>
            /\ last' = MsgEvent(seen, c, "/subscribe", link, 0, "ok", "Error", 0, {})
    /\ UNCHANGED <<chat, now, sweep>>

ProcessUnsubscribe(c, feed_id, db, seen) ==
    /\ Route(c, "/unsubscribe") = "process_command"
    /\ feed' = delete_feed(feed_id, c, db).feed
    /\ last' = MsgEvent(seen, c, "/unsubscribe", "", feed_id, db,
                      IF delete_feed(feed_id, c, db).ok THEN "Deleted {} feed" ELSE "Error",
                      delete_feed(feed_id, c, db).rows_affected, {})
    /\ UNCHANGED <<chat, nextFeedId, now, sweep>>

ProcessList(c, db, seen) ==
    /\ Route(c, "/list") = "process_command"
    /\ IF db = "ok"
       THEN last' = MsgEvent(seen, c, "/list", "", 0, db, "feed_list", 0, read_feed(c))
       ELSE last' = MsgEvent(seen, c, "/list", "", 0, db, "Error", 0, {})
    /\ UNCHANGED <<store, now, sweep>>

ProcessDeleteAccount(c, db, seen) ==
    /\ Route(c, "/deleteaccount") = "process_command"
    /\ chat' = delete_chat(c, db).chat
    /\ last' = MsgEvent(seen, c, "/deleteaccount", "", 0, db,
                      IF delete_chat(c, db).ok
                      THEN "Bye bye. Your account has been deleted."
                      ELSE "Error", 0, {})
    /\ UNCHANGED <<feed, nextFeedId, now, sweep>>

\* ------------------------------------------------------ check_for_updates
\* published_date with the time of the sweep in place of the default date.
published_date_or_now(pub_date) ==
    IF pub_date \in {NoDate, BadDate} THEN now ELSE pub_date

\* rfc822_sanitizer::parse_from_rfc2822_with_fallback(item.pub_date()
\* .unwrap_or_default()).unwrap_or_default().naive_utc()
published_date(pub_date) ==
    IF pub_date \in {NoDate, BadDate} THEN Default ELSE pub_date

\* The comparison with >= in place of >.
AfterOrEqual(a, b) == a >= b

\* The comparison turned around.
Before(a, b) == a < b

\* `a > b` on NaiveDateTime, as the sweep compares dates.
After(a, b) == a > b

\* The documents a fetch may return: the pubDate of each item, in document order.
Channels == UNION {[1..n -> PubDates] : n \in 0..MaxItems}

\* FindAll called on every tick of the timer, the previous call returned or not.
FindAllOnEveryTick(order, db) ==
    /\ IF db = "ok"
       THEN /\ feeds' = [i \in 1..Cardinality(DOMAIN feed) |-> feed[order[i]]]
            /\ listed' = DOMAIN feed
            /\ running' = running \cup {now}
            /\ pc' = "for_feed"
       ELSE UNCHANGED <<feeds, listed, running, pc>>
    /\ UNCHANGED <<store, now, cur, channel, items, max_update_time, attempts,
                   processed, skipped, last>>

\* The entry of check_for_updates.  every(30).seconds().perform(..) awaits the
\* call it made before it waits for the next tick, so the entry is taken only
\* when the previous call has returned; a tick that passes meanwhile starts
\* nothing.  When the query fails the call prints the error and returns.
\* let feeds = Feed::find().all(&db).await: the rows, in the order the store returns them.
FindAll(order, db) ==
    /\ pc = "idle"
    /\ IF db = "ok"
       THEN /\ feeds' = [i \in 1..Cardinality(DOMAIN feed) |-> feed[order[i]]]
            /\ listed' = DOMAIN feed
            /\ running' = running \cup {now}
            /\ pc' = "for_feed"
       ELSE UNCHANGED <<feeds, listed, running, pc>>
    /\ UNCHANGED <<store, now, cur, channel, items, max_update_time, attempts,
                   processed, skipped, last>>

\* Fetch with `return` in place of `continue` on a failure.
FetchOrReturn(fetched, document) ==
    /\ pc = "for_feed"
    /\ feeds # <<>>
    /\ processed' = processed \cup {Head(feeds).id}
    /\ max_update_time' = {}
    /\ attempts' = <<>>
    /\ IF fetched
       THEN /\ feeds' = Tail(feeds)
            /\ cur' = Head(feeds)
            /\ channel' = document
            /\ items' = document
            /\ pc' = "for_item"
            /\ skipped' = skipped
       ELSE /\ feeds' = feeds
            /\ cur' = NoFeed
            /\ channel' = <<>>
            /\ items' = <<>>
            /\ pc' = "idle"
            /\ skipped' = skipped \cup {Head(feeds).id}
    /\ UNCHANGED <<store, now, listed, running, last>>

\* for feed in feeds: reqwest::get, bytes, Channel::read_from; any failure continues.
\* fetched = FALSE is a failed get, read or parse (the document is then unused).
Fetch(fetched, document) ==
    /\ pc = "for_feed"
    /\ feeds # <<>>
    /\ feeds' = Tail(feeds)
    /\ processed' = processed \cup {Head(feeds).id}
    /\ max_update_time' = {}
    /\ attempts' = <<>>
    /\ IF fetched
       THEN /\ cur' = Head(feeds)
            /\ channel' = document
            /\ items' = document
            /\ pc' = "for_item"
            /\ skipped' = skipped
       ELSE /\ cur' = NoFeed
            /\ channel' = <<>>
            /\ items' = <<>>
            /\ pc' = "for_feed"
            /\ skipped' = skipped \cup {Head(feeds).id}
    /\ UNCHANGED <<store, now, listed, running, last>>

\* The index of an item of seq with the earliest published date.
Oldest(seq) ==
    CHOOSE i \in DOMAIN seq :
        \A j \in DOMAIN seq : published_date(seq[i]) <= published_date(seq[j])

\* Item visiting the channel sorted by date, oldest item first.
ItemOldestFirst(delivered) ==
    /\ pc = "for_item"
    /\ items # <<>>
    /\ LET date == published_date(items[Oldest(items)])
       IN  IF After(date, cur.updated_at)
           THEN /\ attempts' = Append(attempts, [date |-> date, ok |-> delivered])
                /\ max_update_time' =
                       IF max_update_time = {} \/ (\A m \in max_update_time : After(date, m))
                       THEN {date} ELSE max_update_time
           ELSE UNCHANGED <<attempts, max_update_time>>
    /\ items' = SubSeq(items, 1, Oldest(items) - 1) \o SubSeq(items, Oldest(items) + 1, Len(items))
    /\ UNCHANGED <<store, now, pc, feeds, cur, channel, listed, processed, skipped,
                   running, last>>

\* for item in channel.items: one item, with the send_message it leads to.
Item(delivered) ==
    /\ pc = "for_item"
    /\ items # <<>>
    /\ LET date == published_date(Head(items))
       IN  IF After(date, cur.updated_at)
           THEN /\ attempts' = Append(attempts, [date |-> date, ok |-> delivered])
                /\ max_update_time' =
                       IF max_update_time = {} \/ (\A m \in max_update_time : After(date, m))
                       THEN {date} ELSE max_update_time
           ELSE UNCHANGED <<attempts, max_update_time>>
    /\ items' = Tail(items)
    /\ UNCHANGED <<store, now, pc, feeds, cur, channel, listed, processed, skipped,
                   running, last>>

\* Commit writing the date of the item visited last, whatever the maximum was.
CommitLastSeen(db) ==
    /\ pc = "for_item"
    /\ items = <<>>
    /\ IF /\ max_update_time # {}
          /\ db = "ok"
          /\ cur.id \in DOMAIN feed
       THEN feed' = [feed EXCEPT ![cur.id].updated_at =
                        published_date(channel[Len(channel)])]
       ELSE feed' = feed
    /\ pc' = "for_feed"
    /\ cur' = NoFeed
    /\ channel' = <<>>
    /\ max_update_time' = {}
    /\ attempts' = <<>>
    /\ UNCHANGED <<chat, nextFeedId, now, feeds, items, listed, processed, skipped,
                   running, last>>

\* Commit placed inside the loop over the items: the update follows the first
\* new item instead of the last item of the channel.
CommitInsideLoop(db) ==
    /\ pc = "for_item"
    /\ max_update_time # {} \/ items = <<>>
    /\ IF /\ \E max_time \in max_update_time : After(max_time, cur.updated_at)
          /\ db = "ok"
          /\ cur.id \in DOMAIN feed
       THEN feed' = [feed EXCEPT ![cur.id].updated_at =
                        CHOOSE max_time \in max_update_time : TRUE]
       ELSE feed' = feed
    /\ pc' = IF items = <<>> THEN "for_feed" ELSE "for_item"
    /\ cur' = IF items = <<>> THEN NoFeed ELSE cur
    /\ channel' = IF items = <<>> THEN <<>> ELSE channel
    /\ max_update_time' = {}
    /\ attempts' = IF items = <<>> THEN <<>> ELSE attempts
    /\ UNCHANGED <<chat, nextFeedId, now, feeds, items, listed, processed, skipped,
                   running, last>>

\* Commit that saves the row it holds, inserting it when the store has none.
CommitUpsert(db) ==
    /\ pc = "for_item"
    /\ items = <<>>
    /\ IF /\ \E max_time \in max_update_time : After(max_time, cur.updated_at)
          /\ db = "ok"
       THEN feed' = [f \in DOMAIN feed \cup {cur.id} |->
                        IF f = cur.id
                        THEN [cur EXCEPT !.updated_at = CHOOSE max_time \in max_update_time : TRUE]
                        ELSE feed[f]]
       ELSE feed' = feed
    /\ pc' = "for_feed"
    /\ cur' = NoFeed
    /\ channel' = <<>>
    /\ max_update_time' = {}
    /\ attempts' = <<>>
    /\ UNCHANGED <<chat, nextFeedId, now, feeds, items, listed, processed, skipped,
                   running, last>>

\* if let Some(max_time) = max_update_time: the update of the row by its id.
\* The loop body ends here and its locals go out of scope.
Commit(db) ==
    /\ pc = "for_item"
    /\ items = <<>>
    /\ IF /\ \E max_time \in max_update_time : After(max_time, cur.updated_at)
          /\ db = "ok"
          /\ cur.id \in DOMAIN feed
       THEN feed' = [feed EXCEPT ![cur.id].updated_at =
                        CHOOSE max_time \in max_update_time : TRUE]
       ELSE feed' = feed
    /\ pc' = "for_feed"
    /\ cur' = NoFeed
    /\ channel' = <<>>
    /\ max_update_time' = {}
    /\ attempts' = <<>>
    /\ UNCHANGED <<chat, nextFeedId, now, feeds, items, listed, processed, skipped,
                   running, last>>

\* The loop over feeds is exhausted: check_for_updates returns.
Return ==
    /\ pc = "for_feed"
    /\ feeds = <<>>
    /\ pc' = "idle"
    /\ listed' = {}
    /\ processed' = {}
    /\ skipped' = {}
    /\ running' = running \ {CHOOSE t \in running : TRUE}
    /\ UNCHANGED <<store, now, feeds, cur, channel, items, max_update_time, attempts, last>>

\* current_timestamp of the store moves on.
Clock(seen) ==
    /\ now < MaxTime
    /\ now' = now + 1
    /\ last' = IF seen THEN NoMessage ELSE last
    /\ UNCHANGED <<store, sweep>>

\* ------------------------------------------------------------ specification
Init ==
    /\ chat = EmptyTable
    /\ feed = EmptyTable
    /\ nextFeedId = 1
    /\ now = 1
    /\ pc = "idle"
    /\ feeds = <<>>
    /\ cur = NoFeed
    /\ channel = <<>>
    /\ items = <<>>
    /\ max_update_time = {}
    /\ attempts = <<>>
    /\ listed = {}
    /\ processed = {}
    /\ skipped = {}
    /\ running = {}
    /\ last = NoMessage

\* The dispatcher: one inbound message, routed and handled.
Dispatch(seen) ==
    \/ \E c \in ChatIds, text \in Texts : LookupPanics(c, text, seen)
    \/ \E c \in ChatIds : ProcessLoggedOutHelp(c, seen)
    \/ \E c \in ChatIds, db \in DbOutcomes : ProcessStart(c, db, seen)
    \/ \E c \in ChatIds, text \in Texts : ask_to_subscribe(c, text, seen)
    \/ \E c \in ChatIds, text \in Texts : noop(c, text, seen)
    \/ \E c \in ChatIds, text \in Texts : default_handler(c, text, seen)
    \/ \E c \in ChatIds : ProcessHelp(c, seen)
    \/ \E c \in ChatIds, link \in Links, valid \in BOOLEAN, db \in DbOutcomes :
           ProcessSubscribe(c, link, valid, db, seen)
    \/ \E c \in ChatIds, feed_id \in 1..MaxFeedId, db \in DbOutcomes :
           ProcessUnsubscribe(c, feed_id, db, seen)
    \/ \E c \in ChatIds, db \in DbOutcomes : ProcessList(c, db, seen)
    \/ \E c \in ChatIds, db \in DbOutcomes : ProcessDeleteAccount(c, db, seen)

\* The task spawned by every(30).seconds().perform(check_for_updates): the
\* next run starts when the previous one has returned.
CheckForUpdates ==
    \/ \E order \in Perms(DOMAIN feed), db \in DbOutcomes : FindAll(order, db)
    \/ Fetch(FALSE, <<>>)
    \/ \E document \in Channels : Fetch(TRUE, document)
    \/ \E delivered \in BOOLEAN : Item(delivered)
    \/ \E db \in DbOutcomes : Commit(db)
    \/ Return

\* The whole program: the sweep task beside the dispatcher.
Next == Dispatch(FALSE) \/ CheckForUpdates \/ Clock(FALSE)

Spec == Init /\ [][Next]_vars

\* The dispatcher by itself, the reply of every handler on record.
NextRouter == Dispatch(TRUE) \/ Clock(TRUE)

SpecRouter == Init /\ [][NextRouter]_vars

\* ------------------------------------------------------------ properties
\* Steps of the sweep, told by the position of check_for_updates.
CommitStep == pc = "for_item" /\ items = <<>> /\ pc' = "for_feed"

FetchFailedStep == pc = "for_feed" /\ pc' = "for_feed" /\ feeds' # feeds

Max(S) == CHOOSE m \in S : \A x \in S : m >= x

\* The dates of the notifications attempted for the current feed, in order.
Sent == [i \in DOMAIN attempts |-> attempts[i].date]

\* The items of the channel the loop has visited.
Visited == SubSeq(channel, 1, Len(channel) - Len(items))

\* The resolved dates of the items of seq that lie after watermark w, in order.
NewIn(seq, w) ==
    LET dates == [i \in DOMAIN seq |-> IF seq[i] < 1 THEN 0 ELSE seq[i]]
        IsNew(d) == d > w
    IN  SelectSeq(dates, IsNew)

\* The replies that send nothing to the chat.
NoReply == {None, "Unhandled update", "panic"}

\* C1: the stored updated_at of a feed never decreases; it changes only in the
\* commit of a sweep that found a new item for that feed, and then to a
\* strictly greater value.
WatermarkNeverDecreases ==
    [][\A f \in DOMAIN feed \cap DOMAIN feed' :
          /\ feed'[f].updated_at >= feed[f].updated_at
          /\ feed'[f].updated_at # feed[f].updated_at =>
                 CommitStep /\ f = cur.id /\ attempts # <<>>]_vars

\* A commit has advanced the watermark of a feed.
WatermarkAdvanced ==
    \E f \in DOMAIN feed : feed[f].updated_at > feed[f].created_at

\* C2: a notification is attempted only for an item dated after the watermark
\* the sweep read and after the stored watermark of the feed: once updated_at
\* is >= t, no item dated <= t is notified again.
NotifiedAtMostOnce ==
    [][pc = "for_item" /\ Len(attempts') > Len(attempts) =>
          /\ attempts'[Len(attempts')].date > cur.updated_at
          /\ cur.id \in DOMAIN feed =>
                 attempts'[Len(attempts')].date > feed[cur.id].updated_at]_vars

\* A sweep notifies an item of a feed whose watermark an earlier sweep advanced.
NotifiedAfterAdvance ==
    pc = "for_item" /\ attempts # <<>> /\ cur.updated_at > cur.created_at

\* C3: when every send_message for the new items of a feed failed, the commit
\* leaves updated_at of the feed as it was.
AllFailedNoAdvance ==
    [][CommitStep /\ attempts # <<>> /\ (\A i \in DOMAIN attempts : ~attempts[i].ok)
          => feed' = feed]_vars

\* C4: with some notifications delivered and some failed, the committed
\* watermark is at most the date of the last delivered item.
PartialDeliveryWatermark ==
    [][/\ CommitStep
       /\ \E i \in DOMAIN attempts : attempts[i].ok
       /\ \E i \in DOMAIN attempts : ~attempts[i].ok
       /\ cur.id \in DOMAIN feed'
       => feed'[cur.id].updated_at <=
              attempts[Max({i \in DOMAIN attempts : attempts[i].ok})].date]_vars

DeleteAccountRemovesFeeds ==
    [][/\ last'.text = "/deleteaccount"
       /\ last'.db = "ok"
       /\ last'.chat \in DOMAIN chat
       /\ read_feed(last'.chat) # {}
       => /\ last'.chat \notin DOMAIN chat'
          /\ \A f \in DOMAIN feed' : feed'[f].chat_id # last'.chat]_vars

\* C7 as stated: start from a chat that is registered is answered with the
\* registration error, the chat table unchanged.
SecondStartReportsError ==
    [][last'.text = "/start" /\ last'.db = "ok" /\ last'.chat \in DOMAIN chat
          => last'.reply = "Error in registering new chat" /\ chat' = chat]_vars

\* C7 as amended: start from a chat that is registered does not reach
\* create_chat: the chat table, created_at included, is unchanged and nothing
\* is replied.
SecondStartIgnored ==
    [][last'.text = "/start" /\ last'.chat \in DOMAIN chat
          => chat' = chat /\ feed' = feed /\ last'.reply \in NoReply]_vars

\* A registered chat has sent start again, at a later time than it registered.
SecondStartSeen ==
    /\ last.text = "/start"
    /\ last.db = "ok"
    /\ last.chat \in DOMAIN chat
    /\ last.reply \in NoReply
    /\ chat[last.chat].created_at < now

\* C8: a message of a chat that is not registered creates, deletes and lists
\* no feed and changes no chat but by start creating its own; subscribe is
\* answered with the prompt to register.
UnregisteredTouchesNoFeed ==
    [][last' # NoMessage /\ last'.chat \notin DOMAIN chat =>
          /\ feed' = feed
          /\ nextFeedId' = nextFeedId
          /\ last'.ids = {}
          /\ last'.reply \notin {"feed_list", "Subscribed to feed", "Deleted {} feed"}
          /\ \A c \in DOMAIN chat : c \in DOMAIN chat' /\ chat'[c] = chat[c]
          /\ \A c \in DOMAIN chat' :
                 c \in DOMAIN chat \/ (c = last'.chat /\ last'.text = "/start")
          /\ last'.text = "/subscribe" /\ last'.db = "ok" =>
                 last'.reply = "type /start to create an account"]_vars

\* An unregistered chat has sent subscribe while another chat owns a feed.
UnregisteredSubscribeSeen ==
    /\ last.text = "/subscribe"
    /\ last.chat \notin DOMAIN chat
    /\ last.reply = "type /start to create an account"
    /\ feed # EmptyTable

\* C9: unsubscribe of feed_id by a registered chat deletes only rows with that
\* id owned by that chat, changes no other row, and for an id that is absent
\* or owned by another chat deletes nothing and replies "Deleted 0 feed".
UnsubscribeScoped ==
    [][last'.text = "/unsubscribe" /\ last'.chat \in DOMAIN chat /\ last'.reply # "panic" =>
          /\ \A f \in DOMAIN feed \ DOMAIN feed' :
                 feed[f].id = last'.feed_id /\ feed[f].chat_id = last'.chat
          /\ \A f \in DOMAIN feed' : f \in DOMAIN feed /\ feed'[f] = feed[f]
          /\ chat' = chat
          /\ /\ last'.db = "ok"
             /\ \/ last'.feed_id \notin DOMAIN feed
                \/ feed[last'.feed_id].chat_id # last'.chat
             => /\ feed' = feed
                /\ last'.reply = "Deleted {} feed"
                /\ last'.n = 0]_vars

\* A chat has asked to unsubscribe a feed that another chat owns.
UnsubscribeOfForeignFeedSeen ==
    /\ last.text = "/unsubscribe"
    /\ last.reply = "Deleted {} feed"
    /\ last.n = 0
    /\ last.feed_id \in DOMAIN feed
    /\ feed[last.feed_id].chat_id # last.chat

\* C10: a failed fetch changes no row and attempts no notification, the sweep
\* goes on with the feeds that remain, and check_for_updates returns only when
\* the loop body has run for every feed it read.
FetchFailureIsolated ==
    [][/\ FetchFailedStep =>
              /\ feed' = feed
              /\ attempts' = <<>>
              /\ feeds' = Tail(feeds)
       /\ pc # "idle" /\ pc' = "idle" => feeds = <<>> /\ processed = listed]_vars

\* A feed is being processed in a sweep in which the fetch of another failed.
ProcessedAfterFailure ==
    pc = "for_item" /\ skipped # {}

\* C11: at most one check_for_updates is in flight at any time, and a tick of
\* the timer that passes while a sweep is running starts no other sweep: the
\* running sweep keeps its list of feeds and its position.
OneSweepAtATime ==
    [][/\ Cardinality(running') <= 1
       /\ running' # {} <=> pc' # "idle"
       /\ pc # "idle" /\ now' # now => UNCHANGED sweep]_vars

\* The timer has ticked while the sweep that started before the tick is running.
TickWhileSweeping ==
    /\ pc = "for_item"
    /\ \E t \in running : t < now

\* C12: an item whose pubDate is missing or does not parse resolves to the
\* default date, which lies before every stored watermark: visiting it attempts
\* no notification and raises no max_update_time, and a channel of such items
\* alone commits nothing.
UndatedNeverNotified ==
    [][/\ \A f \in DOMAIN feed' : feed'[f].updated_at > Default
       /\ pc = "for_item" /\ items # <<>> /\ items' = Tail(items)
              /\ Head(items) \in {NoDate, BadDate} =>
              /\ published_date(Head(items)) = Default
              /\ attempts' = attempts
              /\ max_update_time' = max_update_time
              /\ feed' = feed
       /\ CommitStep /\ (\A i \in DOMAIN channel : channel[i] \in {NoDate, BadDate}) =>
              feed' = feed]_vars

\* The loop has passed an item without a usable date and notified a dated one.
UndatedItemVisited ==
    /\ pc = "for_item"
    /\ \E i \in DOMAIN Visited : Visited[i] \in {NoDate, BadDate}
    /\ attempts # <<>>

\* C13: a feed row is created with updated_at equal to created_at, and a sweep
\* of a feed whose watermark is still its created_at, over a channel whose
\* items are all dated before created_at, attempts no notification and leaves
\* the feed table as it was.
NewFeedIgnoresOlderItems ==
    [][/\ \A f \in DOMAIN feed' \ DOMAIN feed : feed'[f].updated_at = feed'[f].created_at
       /\ /\ CommitStep
          /\ cur.updated_at = cur.created_at
          /\ \A i \in DOMAIN channel : published_date(channel[i]) < cur.created_at
          => attempts = <<>> /\ feed' = feed]_vars

\* The first sweep of a feed has visited a dated item older than the feed.
OlderItemsVisitedOnFirstSweep ==
    /\ pc = "for_item"
    /\ items = <<>>
    /\ cur.id \in DOMAIN feed
    /\ cur.updated_at = cur.created_at
    /\ channel # <<>>
    /\ \A i \in DOMAIN channel : channel[i] >= 1 /\ channel[i] < cur.created_at

\* A message whose text is no command of the state its chat is in.
UnknownText(m, registered) ==
    /\ m # NoMessage
    /\ m.reply # "panic"
    /\ (IF registered THEN LoggedInCommand(m.text) ELSE LoggedOutCommand(m.text)) = None

\* C14 as stated: in a private chat a text that is no command of the chat's
\* state is answered with the command list of that state.
UnknownTextGetsHelp ==
    [][~IsGroup(last'.chat) /\ UnknownText(last', last'.chat \in DOMAIN chat) =>
          last'.reply = IF last'.chat \in DOMAIN chat
                        THEN "LoggedInCommand::descriptions"
                        ELSE "LoggedOutCommand::descriptions"]_vars

\* C14 as amended: in a private chat a text that is no command of the chat's
\* state changes nothing in the store; an unregistered chat is answered with
\* the prompt to register, a registered chat is not answered and the update is
\* logged by the default handler.
UnknownTextPromptOrLog ==
    [][~IsGroup(last'.chat) /\ UnknownText(last', last'.chat \in DOMAIN chat) =>
          /\ UNCHANGED store
          /\ last'.reply = IF last'.chat \in DOMAIN chat
                           THEN "Unhandled update"
                           ELSE "type /start to create an account"]_vars

\* A registered private chat has sent a text that is no command.
UnknownTextOfRegisteredSeen ==
    /\ last.text = "hello"
    /\ ~IsGroup(last.chat)
    /\ last.chat \in DOMAIN chat
    /\ last.reply = "Unhandled update"

\* C15 as stated: in a group a text that is no command of the chat's state,
\* the chat registered or not, changes nothing in the store and is not answered.
GroupTextNeverAnswered ==
    [][IsGroup(last'.chat) /\ UnknownText(last', last'.chat \in DOMAIN chat) =>
          UNCHANGED store /\ last'.reply = None]_vars

\* C15 as amended: in a group a text that is no command of the chat's state
\* changes nothing in the store; a registered group is not answered and the
\* update ends in noop, an unregistered group is answered with the prompt to
\* register.
GroupTextNoopOrPrompt ==
    [][IsGroup(last'.chat) /\ UnknownText(last', last'.chat \in DOMAIN chat) =>
          /\ UNCHANGED store
          /\ last'.reply = IF last'.chat \in DOMAIN chat
                           THEN None
                           ELSE "type /start to create an account"]_vars

\* A registered group has sent a text that is no command.
GroupTextOfRegisteredSeen ==
    /\ last.text = "hello"
    /\ IsGroup(last.chat)
    /\ last.chat \in DOMAIN chat
    /\ last.reply = None

\* C16: a message handled while the store fails is answered with an error
\* reply; the handling task does not panic.
StoreFailureNeverFatal ==
    [][last' # NoMessage /\ last'.db = "err" =>
          last'.reply \in {"Error", "Error in registering new chat"}]_vars

\* C17: every stored feed has updated_at >= created_at.
UpdatedNotBeforeCreated ==
    \A f \in DOMAIN feed : feed[f].updated_at >= feed[f].created_at

\* A feed subscribed after the first tick of the clock has had its watermark
\* advanced by a sweep.
LaterFeedAdvanced ==
    \E f \in DOMAIN feed : feed[f].created_at > 1 /\ feed[f].updated_at > feed[f].created_at

\* C18: updated_at of a feed is written only when the loop over the items of
\* its channel is over and every new item of the channel has had its
\* notification attempt, and an attempt is made only while the stored
\* watermark is still the one this sweep read: no commit of the feed precedes
\* or falls between its attempts.
CommitAfterNotifications ==
    [][/\ \A f \in DOMAIN feed \cap DOMAIN feed' :
              feed'[f].updated_at # feed[f].updated_at =>
                  /\ f = cur.id
                  /\ pc = "for_item" /\ items = <<>>
                  /\ Sent = NewIn(channel, cur.updated_at)
                  /\ attempts' = <<>>
       /\ Len(attempts') > Len(attempts) /\ cur.id \in DOMAIN feed =>
              feed[cur.id].updated_at = cur.updated_at]_vars

\* Every attempt of a feed has resolved, one delivered and one failed, and the
\* commit comes next.
AttemptsResolvedBeforeCommit ==
    /\ pc = "for_item"
    /\ items = <<>>
    /\ cur.id \in DOMAIN feed
    /\ \E i \in DOMAIN attempts : attempts[i].ok
    /\ \E i \in DOMAIN attempts : ~attempts[i].ok

\* C19: when the row of a feed was deleted before the sweep commits its
\* watermark, the commit changes no row and the sweep goes on with the feeds
\* that remain; a delete removes the row whatever the sweep wrote to it and
\* changes no other row; a deleted row never comes back.
CommitUnsubscribeRace ==
    [][/\ CommitStep /\ cur.id \notin DOMAIN feed =>
              /\ UNCHANGED store
              /\ pc' = "for_feed"
              /\ feeds' = feeds
       /\ DOMAIN feed' # DOMAIN feed /\ nextFeedId' = nextFeedId =>
              /\ DOMAIN feed' \subseteq DOMAIN feed
              /\ \A g \in DOMAIN feed' : feed'[g] = feed[g]
              /\ chat' = chat
       /\ \A f \in 1..MaxFeedId :
              f < nextFeedId /\ f \notin DOMAIN feed => f \notin DOMAIN feed']_vars

\* The feed the sweep is about to commit was unsubscribed during the sweep,
\* and other feeds remain to be visited.
CommitOfDeletedFeedPending ==
    /\ pc = "for_item"
    /\ items = <<>>
    /\ max_update_time # {}
    /\ cur.id \notin DOMAIN feed
    /\ feeds # <<>>

NoNotificationAfterUnsubscribe ==
    [][/\ pc = "for_item"
       /\ Len(attempts') > Len(attempts)
       /\ attempts'[Len(attempts')].ok
       => cur.id \in DOMAIN feed]_vars

====
